---- MODULE Spec2Model ----
(***************************************************************************)
(* Mode-by-mode waveform generation of pycbc/waveform/waveform_modes.py:   *)
(* the two registries, the dispatching entry points, the four generator    *)
(* adapters, default_modes and sum_modes.                                  *)
(*                                                                         *)
(* Python values are written as follows.  A dict whose iteration order is  *)
(* never used (params, kwargs, the returned hlms) is a function from its   *)
(* keys; the dict sum_modes iterates over is a sequence of <<key, value>>  *)
(* pairs in iteration order.  A tuple (l, m) is <<l, m>>.  A complex       *)
(* number is <<re, im>> over the integers, a series is a sequence of       *)
(* complex samples.  A value that may be None is PyNone or PySome(v).      *)
(***************************************************************************)
EXTENDS Integers, Sequences, FiniteSets, TLC

VARIABLES
    _mode_waveform_td,  \* registry: approximant name -> time-domain adapter
    _mode_waveform_fd,  \* registry: approximant name -> frequency-domain adapter
    fn,                 \* the function the caller invoked ("none" between calls)
    template,           \* the caller's template object (its attributes)
    kwargs,             \* the caller's keyword mapping
    params,             \* the running call's own parameter dict
    pc,                 \* position of the running call
    mode_array,         \* get_imrphenomxh_modes: its local target list
    idx,                \* get_imrphenomxh_modes: number of loop iterations begun
    hlms,               \* get_imrphenomxh_modes: the dict under construction
    adapterCalls,       \* adapters entered during the running call, in order
    solverCalls,        \* external solver calls of the running call, in order
    solverRets,         \* what each of those solver calls returned
    result,             \* outcome of the running call
    solver,             \* the external solver installed for this session
    prevCalls,          \* solverCalls of the first of two identical calls
    repeated            \* the running call repeats the previous one

vars == <<_mode_waveform_td, _mode_waveform_fd, fn, template, kwargs, params,
          pc, mode_array, idx, hlms, adapterCalls, solverCalls, solverRets,
          result, solver, prevCalls, repeated>>

----------------------------------------------------------------------------
\* Bounds of the explored inputs.

\* real parts of the samples handed to sum_modes range over 0..MaxSample
MaxSample == 1
\* inclination and phi handed to sum_modes range over 0..MaxAngle
MaxAngle == 1
\* number of modes in a mapping handed to sum_modes
MaxModes == 2
\* number of distinct stub solvers
MaxStub == 2
\* number of samples in a series a stub solver returns
SeriesLen == 1

----------------------------------------------------------------------------
\* Python helpers.

PyNone == [none |-> TRUE]

PySome(v) == [none |-> FALSE, val |-> v]

Has(d, k) == k \in DOMAIN d

\* d[k] = v
DictSet(d, k, v) == [x \in DOMAIN d \cup {k} |-> IF x = k THEN v ELSE d[x]]

\* d without key k (dict.pop's effect on d)
DictDel(d, k) == [x \in DOMAIN d \ {k} |-> d[x]]

\* d.update(e)
DictUpdate(d, e) == [x \in DOMAIN d \cup DOMAIN e |-> IF x \in DOMAIN e THEN e[x] ELSE d[x]]

EmptyDict == [x \in {} |-> 0]

\* str.startswith
startswith(s, p) == Len(s) >= Len(p) /\ SubSeq(s, 1, Len(p)) = p

Range(s) == {s[k] : k \in DOMAIN s}

\* the first key of the sequence ks that d lacks, as a one-element sequence
RECURSIVE FirstMissing(_, _)
FirstMissing(d, ks) ==
    IF ks = <<>> THEN <<>>
    ELSE IF ~Has(d, Head(ks)) THEN <<Head(ks)>>
    ELSE FirstMissing(d, Tail(ks))

\* Complex arithmetic on <<re, im>>.
Zero == <<0, 0>>

CAdd(a, b) == <<a[1] + b[1], a[2] + b[2]>>

CMul(a, b) == <<a[1] * b[1] - a[2] * b[2], a[1] * b[2] + a[2] * b[1]>>

\* (c/2) * z for a Gaussian integer c: 0.5 is c = <<1, 0>>, 0.5j is c = <<0, 1>>
CMulHalf(c, z) == <<CMul(c, z)[1] \div 2, CMul(c, z)[2] \div 2>>

\* scalar * series, elementwise
SeriesMulHalf(c, h) == [k \in DOMAIN h |-> CMulHalf(c, h[k])]

SeriesNeg(h) == [k \in DOMAIN h |-> <<0 - h[k][1], 0 - h[k][2]>>]

SeriesReal(h) == [k \in DOMAIN h |-> h[k][1]]

SeriesImag(h) == [k \in DOMAIN h |-> h[k][2]]

----------------------------------------------------------------------------
\* default_modes

\* [(l, -m) for l, m in ma]
NegM(ma) == [k \in DOMAIN ma |-> <<ma[k][1], 0 - ma[k][2]>>]

\* [(l, m) for m in range(-l, l+1)]
AllM(l) == [k \in 1..(2 * l + 1) |-> <<l, k - l - 1>>]

Return(v) == [kind |-> "return", value |-> v]

Raise(kind, msg, arg) == [kind |-> kind, msg |-> msg, arg |-> arg]

\* a resolver that forgets the -m modes and guesses an empty list for unknown names
default_modes_guessing(approximant) ==
    IF approximant \in {"IMRPhenomXPHM", "IMRPhenomXHM"}
    THEN Return(<< <<2, 2>>, <<2, 1>>, <<3, 3>>, <<3, 2>>, <<4, 4>> >>)
    ELSE IF approximant \in {"IMRPhenomPv3HM", "IMRPhenomHM"}
    THEN Return(<< <<2, 2>>, <<2, 1>>, <<3, 3>>, <<3, 2>>, <<4, 4>>, <<4, 3>> >>)
    ELSE IF startswith(approximant, "NRSur7dq4")
    THEN Return(AllM(2) \o AllM(3) \o AllM(4))
    ELSE IF startswith(approximant, "NRHybSur3dq8")
    THEN Return(<< <<2, 0>>, <<2, 1>>, <<2, 2>>, <<3, 0>>, <<3, 1>>, <<3, 2>>,
                   <<3, 3>>, <<4, 2>>, <<4, 3>>, <<4, 4>>, <<5, 5>> >>)
    ELSE Return(<<>>)

\* [(l, m) for m in range(-l, l+2)]: one m too many
AllM_wide(l) == [k \in 1..(2 * l + 2) |-> <<l, k - l - 1>>]

\* a resolver whose surrogate range runs one past l
default_modes_wide(approximant) ==
    IF approximant \in {"IMRPhenomXPHM", "IMRPhenomXHM"}
    THEN LET ma == << <<2, 2>>, <<2, 1>>, <<3, 3>>, <<3, 2>>, <<4, 4>> >>
         IN  Return(ma \o NegM(ma))
    ELSE IF approximant \in {"IMRPhenomPv3HM", "IMRPhenomHM"}
    THEN LET ma == << <<2, 2>>, <<2, 1>>, <<3, 3>>, <<3, 2>>, <<4, 4>>, <<4, 3>> >>
         IN  Return(ma \o NegM(ma))
    ELSE IF startswith(approximant, "NRSur7dq4")
    THEN Return(AllM_wide(2) \o AllM_wide(3) \o AllM_wide(4))
    ELSE IF startswith(approximant, "NRHybSur3dq8")
    THEN Return(<< <<2, 0>>, <<2, 1>>, <<2, 2>>, <<3, 0>>, <<3, 1>>, <<3, 2>>,
                   <<3, 3>>, <<4, 2>>, <<4, 3>>, <<4, 4>>, <<5, 5>> >>)
    ELSE Raise("ValueError", "I don't know what the default modes are for approximant",
               approximant)

default_modes(approximant) ==
    IF approximant \in {"IMRPhenomXPHM", "IMRPhenomXHM"}
    THEN LET ma == << <<2, 2>>, <<2, 1>>, <<3, 3>>, <<3, 2>>, <<4, 4>> >>
         IN  Return(ma \o NegM(ma))
    ELSE IF approximant \in {"IMRPhenomPv3HM", "IMRPhenomHM"}
    THEN LET ma == << <<2, 2>>, <<2, 1>>, <<3, 3>>, <<3, 2>>, <<4, 4>>, <<4, 3>> >>
         IN  Return(ma \o NegM(ma))
    ELSE IF startswith(approximant, "NRSur7dq4")
    THEN Return(AllM(2) \o AllM(3) \o AllM(4))
    ELSE IF startswith(approximant, "NRHybSur3dq8")
    THEN Return(<< <<2, 0>>, <<2, 1>>, <<2, 2>>, <<3, 0>>, <<3, 1>>, <<3, 2>>,
                   <<3, 3>>, <<4, 2>>, <<4, 3>>, <<4, 4>>, <<5, 5>> >>)
    ELSE Raise("ValueError", "I don't know what the default modes are for approximant",
               approximant)

----------------------------------------------------------------------------
\* The registries and the names the callers use.

TdNames == {"EOBNRv2", "EOBNRv2HM", "IMRPhenomTPHM", "NRSur7dq2", "NRSur7dq4",
            "NRHybSur3dq8", "pSEOBNRv4HM_PA", "SEOBNRv4HM_PA", "SEOBNRv4P",
            "SEOBNRv4PHM", "SpinTaylorT1", "SpinTaylorT4", "SpinTaylorT5",
            "TaylorT1", "TaylorT2", "TaylorT3", "TaylorT4"}

mode_waveform_td_init ==
    [n \in TdNames |->
        IF n = "NRSur7dq4" THEN "get_nrsur_modes"
        ELSE IF n = "NRHybSur3dq8" THEN "get_nrhybsur_modes"
        ELSE "get_lalsimulation_modes"]

mode_waveform_fd_init == [n \in {"IMRPhenomXHM"} |-> "get_imrphenomxh_modes"]

\* sorted(_mode_waveform_fd.keys()), as the set of names it lists
fd_waveform_mode_approximants == DOMAIN _mode_waveform_fd

\* sorted(_mode_waveform_td.keys()), as the set of names it lists
td_waveform_mode_approximants == DOMAIN _mode_waveform_td

\* the keys of the dict in get_lalsimulation_approximant
LalsimulationApproximants == TdNames

\* the names getattr(lalsimulation, name) finds: the library's approximant constants
LalsimulationAttributes ==
    TdNames \cup {"IMRPhenomXHM", "IMRPhenomXPHM", "IMRPhenomXAS", "IMRPhenomHM",
                  "IMRPhenomPv3HM"}

\* approximant values the callers pass
CallerNames == {"EOBNRv2", "NRSur7dq2", "NRSur7dq4", "NRHybSur3dq8", "IMRPhenomXHM",
                "IMRPhenomXPHM", "IMRPhenomXAS", "IMRPhenomHM", "NotAModel"}

\* names default_modes is asked about
ResolverNames == TdNames \cup CallerNames \cup {"IMRPhenomPv3HM", "NRSur7dq4_x", "NRHybSur3dq8_CE", "NRSur7dq"}

Adapters == {"get_lalsimulation_modes", "get_nrsur_modes", "get_nrhybsur_modes",
             "get_imrphenomxh_modes"}

----------------------------------------------------------------------------
\* Collaborators in pycbc.waveform.waveform and pycbc.waveform.parameters.

td_required == {"delta_t", "mass1", "mass2", "spin1z", "spin2z", "f_lower", "f_ref",
                "distance", "approximant"}

fd_required == td_required \cup {"delta_f", "coa_phase"}

\* props(template, **kwargs): the template's attributes, overridden by the keywords
props(t, kw) == DictUpdate(t, kw)

\* check_args(params, required): raises naming the missing keys
check_args(p, required) ==
    IF required \ DOMAIN p # {}
    THEN Raise("ValueError", "Please provide", required \ DOMAIN p)
    ELSE Return(PyNone)

\* _check_lal_pars(params): the LAL dict; of it, the modes it activates
_check_lal_pars(p) ==
    [mode_array |-> IF Has(p, "mode_array") THEN p["mode_array"] ELSE PyNone]

----------------------------------------------------------------------------
\* The external solvers: a deterministic stub per session.

Stubs == [gain : 1..MaxStub, bad : BOOLEAN]

\* SimIMRPhenomXHMGenerateFDOneMode: does it raise, and the series it returns
OneModeFails(s, l, m) == s.bad /\ l = 3

OneModeOutput(s, l, m) ==
    [k \in 1..SeriesLen |-> <<2 * s.gain * k, 2 * (s.gain - 1) * (l + m)>>]

\* the packed solvers: do they raise, and the linked list of modes they return
PackedFails(s) == s.bad

PackedOutput(s) ==
    LET rec(l, m) == [l |-> l, m |-> m, mode |-> OneModeOutput(s, l, m)]
    IN  IF s.gain = 1 THEN <<rec(2, 2), rec(2, -2)>>
        ELSE <<rec(2, 2), rec(2, -2), rec(3, 3)>>

\* while ret: hlms[ret.l, ret.m] = (hlm.real(), hlm.imag()); ret = ret.next
RECURSIVE WalkModes(_, _)
WalkModes(ret, d) ==
    IF ret = <<>> THEN d
    ELSE WalkModes(Tail(ret),
                   DictSet(d, <<Head(ret).l, Head(ret).m>>,
                           <<SeriesReal(Head(ret).mode), SeriesImag(Head(ret).mode)>>))

\* the stub in place for a solver call: chosen at the session's first solver call
SolverChoices == IF solver = <<>> THEN Stubs ELSE {solver[1]}

----------------------------------------------------------------------------
\* sum_modes

\* lal.SpinWeightedSphericalHarmonic, as an integer-valued weight
SpinWeightedSphericalHarmonic(theta, phi, s, l, m) ==
    <<l + theta, m * (phi + 1) + s + 2>>

\* a loop that overwrites the accumulator instead of adding to it
sum_modes_overwriting(d, inclination, phi) ==
    IF d = <<>> THEN PyNone
    ELSE LET mode == d[Len(d)][1]
             ylm  == SpinWeightedSphericalHarmonic(inclination, phi, -2, mode[1], mode[2])
         IN  PySome(CMul(ylm, d[Len(d)][2]))

\* for mode in hlms: ... out = ylm * hlm if out is None else out + ylm * hlm
RECURSIVE SumLoop(_, _, _, _)
SumLoop(items, out, inclination, phi) ==
    IF items = <<>> THEN out
    ELSE LET mode == Head(items)[1]
             hlm  == Head(items)[2]
             ylm  == SpinWeightedSphericalHarmonic(inclination, phi, -2, mode[1], mode[2])
         IN  SumLoop(Tail(items),
                     IF out.none THEN PySome(CMul(ylm, hlm))
                     ELSE PySome(CAdd(out.val, CMul(ylm, hlm))),
                     inclination, phi)

sum_modes(d, inclination, phi) == SumLoop(d, PyNone, inclination, phi)

----------------------------------------------------------------------------
\* The inputs the callers draw from.

ModeKeys == {<<2, 2>>, <<2, -2>>, <<3, 3>>}

Samples == {<<a, b>> : a \in 0..MaxSample, b \in {-1, 1}}

\* insertion-ordered dicts of at most MaxModes modes
ModeDicts ==
    {d \in UNION {[1..n -> ModeKeys \X Samples] : n \in 0..MaxModes} :
        \A j, k \in DOMAIN d : j # k => d[j][1] # d[k][1]}

Angles == 0..MaxAngle

NumericKeys == {"delta_t", "mass1", "mass2", "spin1x", "spin1y", "spin1z", "spin2x",
                "spin2y", "spin2z", "f_lower", "f_ref", "distance", "coa_phase",
                "delta_f"}

DropSets == SUBSET {"mass1", "delta_f"}

NameChoices == {<<>>} \cup {<<n>> : n \in CallerNames}

ModeArrayChoices ==
    {<<>>, <<PyNone>>, <<PySome(<<>>)>>, <<PySome(<< <<2, 2>>, <<2, -2>> >>)>>,
     <<PySome(<< <<3, 3>>, <<2, 0>>, <<3, 3>> >>)>>}

FinalChoices == {<<>>, <<30>>}

Templates == {EmptyDict, [k \in {"mass1"} |-> 2]}

Optional(k, choice) == IF choice = <<>> THEN EmptyDict ELSE [x \in {k} |-> choice[1]]

MakeKwargs(name, drop, ma, ff) ==
    DictUpdate(DictUpdate(DictUpdate([k \in NumericKeys \ drop |-> 1],
                                     Optional("approximant", name)),
                          Optional("mode_array", ma)),
               Optional("f_final", ff))

KwargsChoices ==
    {MakeKwargs(name, drop, ma, ff) :
        name \in NameChoices, drop \in DropSets, ma \in ModeArrayChoices,
        ff \in FinalChoices}

EntryPoints == {"get_td_waveform_modes", "get_fd_waveform_modes"}

NoResult == [kind |-> "none"]

----------------------------------------------------------------------------
\* State.

Init ==
    /\ _mode_waveform_td = mode_waveform_td_init
    /\ _mode_waveform_fd = mode_waveform_fd_init
    /\ fn = "none"
    /\ template = EmptyDict
    /\ kwargs = EmptyDict
    /\ params = EmptyDict
    /\ pc = "idle"
    /\ mode_array = <<>>
    /\ idx = 0
    /\ hlms = EmptyDict
    /\ adapterCalls = <<>>
    /\ solverCalls = <<>>
    /\ solverRets = <<>>
    /\ result = NoResult
    /\ solver = <<>>
    /\ prevCalls = <<>>
    /\ repeated = FALSE

regs == <<_mode_waveform_td, _mode_waveform_fd>>

xhlocals == <<mode_array, idx, hlms>>

logs == <<adapterCalls, solverCalls, solverRets>>

session == <<solver, prevCalls, repeated>>

\* a call of f begins: the callee's frame is fresh
Start(f, t, kw, p, entered) ==
    /\ fn' = f
    /\ template' = t
    /\ kwargs' = kw
    /\ params' = p
    /\ pc' = f
    /\ mode_array' = <<>>
    /\ idx' = 0
    /\ hlms' = EmptyDict
    /\ adapterCalls' = entered
    /\ solverCalls' = <<>>
    /\ solverRets' = <<>>
    /\ result' = NoResult

\* the object the name params is bound to inside an adapter: def f(**params)
\* builds a new dict ("own"); "kwargs" would be the caller's dict itself
ParamsObject_caller == "kwargs"

ParamsObject == "own"

\* an assignment to, or a pop from, params
WriteParams(p) ==
    /\ params' = p
    /\ kwargs' = IF ParamsObject = "kwargs" THEN p ELSE kwargs

\* the call ends with outcome r
Done(r) ==
    /\ result' = r
    /\ pc' = "done"

----------------------------------------------------------------------------
\* The callers.

CallEntry ==
    /\ pc = "idle"
    /\ \E f \in EntryPoints, t \in Templates, kw \in KwargsChoices :
          Start(f, t, kw, EmptyDict, <<>>)
    /\ UNCHANGED <<regs, session>>

\* an adapter called directly: its params is the dict built from the keywords
CallAdapter ==
    /\ pc = "idle"
    /\ \E f \in Adapters, kw \in KwargsChoices :
          Start(f, EmptyDict, kw, kw, <<f>>)
    /\ UNCHANGED <<regs, session>>

CallDefaultModes ==
    /\ pc = "idle"
    /\ \E n \in ResolverNames :
          Start("default_modes", EmptyDict, [k \in {"approximant"} |-> n], EmptyDict, <<>>)
    /\ UNCHANGED <<regs, session>>

CallSumModes ==
    /\ pc = "idle"
    /\ \E d \in ModeDicts, inclination \in Angles, phi \in Angles :
          Start("sum_modes", EmptyDict,
                [k \in {"hlms", "inclination", "phi"} |->
                    IF k = "hlms" THEN d ELSE IF k = "inclination" THEN inclination ELSE phi],
                EmptyDict, <<>>)
    /\ UNCHANGED <<regs, session>>

\* the caller makes the call it just made once more, with the mapping it holds
Repeat ==
    /\ pc = "done"
    /\ ~repeated
    /\ fn \in EntryPoints \cup Adapters
    /\ Start(fn, template, kwargs, IF fn \in Adapters THEN kwargs ELSE EmptyDict,
             IF fn \in Adapters THEN <<fn>> ELSE <<>>)
    /\ prevCalls' = solverCalls
    /\ repeated' = TRUE
    /\ UNCHANGED <<regs, solver>>

\* the caller takes the outcome; the session ends
Finish ==
    /\ pc = "done"
    /\ fn' = "none"
    /\ template' = EmptyDict
    /\ kwargs' = EmptyDict
    /\ params' = EmptyDict
    /\ pc' = "idle"
    /\ mode_array' = <<>>
    /\ idx' = 0
    /\ hlms' = EmptyDict
    /\ adapterCalls' = <<>>
    /\ solverCalls' = <<>>
    /\ solverRets' = <<>>
    /\ result' = NoResult
    /\ solver' = <<>>
    /\ prevCalls' = <<>>
    /\ repeated' = FALSE
    /\ UNCHANGED regs

----------------------------------------------------------------------------
\* default_modes and sum_modes, called by the caller.

DefaultModes ==
    /\ pc = "default_modes"
    /\ Done(default_modes(kwargs["approximant"]))
    /\ UNCHANGED <<regs, fn, template, kwargs, params, xhlocals, logs, session>>

SumModes ==
    /\ pc = "sum_modes"
    /\ Done(Return(sum_modes(kwargs["hlms"], kwargs["inclination"], kwargs["phi"])))
    /\ UNCHANGED <<regs, fn, template, kwargs, params, xhlocals, logs, session>>

----------------------------------------------------------------------------
\* The entry points.

\* an entry point that looks the approximant up before it checks the arguments
get_td_waveform_modes_lookup_first ==
    /\ pc = "get_td_waveform_modes"
    /\ LET p == props(template, kwargs)
           chk == check_args(p, td_required)
       IN  IF Has(p, "approximant") /\ p["approximant"] \notin DOMAIN _mode_waveform_td
           THEN /\ Done(Raise("ValueError", "I don't support approximant", p["approximant"]))
                /\ UNCHANGED <<params, adapterCalls>>
           ELSE IF chk.kind # "return"
           THEN /\ Done(chk)
                /\ UNCHANGED <<params, adapterCalls>>
           ELSE /\ params' = p
                /\ pc' = _mode_waveform_td[p["approximant"]]
                /\ adapterCalls' = Append(adapterCalls, _mode_waveform_td[p["approximant"]])
                /\ UNCHANGED result
    /\ UNCHANGED <<regs, fn, template, kwargs, xhlocals, solverCalls, solverRets, session>>

get_td_waveform_modes ==
    /\ pc = "get_td_waveform_modes"
    /\ LET p == props(template, kwargs)
           chk == check_args(p, td_required)
       IN  IF chk.kind # "return"
           THEN /\ Done(chk)
                /\ UNCHANGED <<params, adapterCalls>>
           ELSE IF p["approximant"] \notin DOMAIN _mode_waveform_td
           THEN /\ Done(Raise("ValueError", "I don't support approximant", p["approximant"]))
                /\ UNCHANGED <<params, adapterCalls>>
           ELSE /\ params' = p
                /\ pc' = _mode_waveform_td[p["approximant"]]
                /\ adapterCalls' = Append(adapterCalls, _mode_waveform_td[p["approximant"]])
                /\ UNCHANGED result
    /\ UNCHANGED <<regs, fn, template, kwargs, xhlocals, solverCalls, solverRets, session>>

\* an entry point that consults the other domain's registry as well
get_fd_waveform_modes_either_registry ==
    /\ pc = "get_fd_waveform_modes"
    /\ LET p == props(template, kwargs)
           chk == check_args(p, fd_required)
           both == DictUpdate(_mode_waveform_td, _mode_waveform_fd)
       IN  IF chk.kind # "return"
           THEN /\ Done(chk)
                /\ UNCHANGED <<params, adapterCalls>>
           ELSE IF p["approximant"] \notin DOMAIN both
           THEN /\ Done(Raise("ValueError", "I don't support approximant", p["approximant"]))
                /\ UNCHANGED <<params, adapterCalls>>
           ELSE /\ params' = p
                /\ pc' = both[p["approximant"]]
                /\ adapterCalls' = Append(adapterCalls, both[p["approximant"]])
                /\ UNCHANGED result
    /\ UNCHANGED <<regs, fn, template, kwargs, xhlocals, solverCalls, solverRets, session>>

get_fd_waveform_modes ==
    /\ pc = "get_fd_waveform_modes"
    /\ LET p == props(template, kwargs)
           chk == check_args(p, fd_required)
       IN  IF chk.kind # "return"
           THEN /\ Done(chk)
                /\ UNCHANGED <<params, adapterCalls>>
           ELSE IF p["approximant"] \notin DOMAIN _mode_waveform_fd
           THEN /\ Done(Raise("ValueError", "I don't support approximant", p["approximant"]))
                /\ UNCHANGED <<params, adapterCalls>>
           ELSE /\ params' = p
                /\ pc' = _mode_waveform_fd[p["approximant"]]
                /\ adapterCalls' = Append(adapterCalls, _mode_waveform_fd[p["approximant"]])
                /\ UNCHANGED result
    /\ UNCHANGED <<regs, fn, template, kwargs, xhlocals, solverCalls, solverRets, session>>

----------------------------------------------------------------------------
\* The packed multi-mode adapters.

ell_max_default == 5

\* one call of a packed solver with arguments args, and the walk over what it returns
PackedCall(args) ==
    \E s \in SolverChoices :
        /\ solver' = <<s>>
        /\ solverCalls' = Append(solverCalls, args)
        /\ IF PackedFails(s)
           THEN /\ Done(Raise("RuntimeError", "solver failed", args.solver))
                /\ UNCHANGED solverRets
           ELSE /\ Done(Return(WalkModes(PackedOutput(s), EmptyDict)))
                /\ solverRets' = Append(solverRets, PackedOutput(s))

NoSolverCall == UNCHANGED <<solver, solverCalls, solverRets>>

get_lalsimulation_modes ==
    /\ pc = "get_lalsimulation_modes"
    /\ LET ell_max == IF Has(params, "ell_max") THEN params["ell_max"] ELSE ell_max_default
           laldict == _check_lal_pars(params)
           miss == FirstMissing(params,
                       <<"coa_phase", "delta_t", "mass1", "mass2", "spin1x", "spin1y",
                         "spin1z", "spin2x", "spin2y", "spin2z", "f_lower", "f_ref",
                         "distance", "approximant">>)
       IN  IF miss # <<>>
           THEN Done(Raise("KeyError", "params", miss[1])) /\ NoSolverCall
           ELSE IF params["approximant"] \notin LalsimulationApproximants
           THEN Done(Raise("KeyError", "get_lalsimulation_approximant",
                           params["approximant"])) /\ NoSolverCall
           ELSE PackedCall([solver |-> "SimInspiralChooseTDModes", laldict |-> laldict,
                            ell_max |-> ell_max, approximant |-> params["approximant"]])
    /\ UNCHANGED <<regs, fn, template, kwargs, params, xhlocals, adapterCalls,
                   prevCalls, repeated>>

get_nrsur_modes ==
    /\ pc = "get_nrsur_modes"
    /\ LET laldict == _check_lal_pars(params)
           miss == FirstMissing(params,
                       <<"delta_t", "mass1", "mass2", "spin1x", "spin1y", "spin1z",
                         "spin2x", "spin2y", "spin2z", "f_lower", "f_ref", "distance",
                         "approximant">>)
       IN  IF miss # <<>>
           THEN Done(Raise("KeyError", "params", miss[1])) /\ NoSolverCall
           ELSE IF params["approximant"] \notin LalsimulationAttributes
           THEN Done(Raise("AttributeError", "lalsimulation",
                           params["approximant"])) /\ NoSolverCall
           ELSE PackedCall([solver |-> "SimInspiralPrecessingNRSurModes",
                            laldict |-> laldict, approximant |-> params["approximant"]])
    /\ UNCHANGED <<regs, fn, template, kwargs, params, xhlocals, adapterCalls,
                   prevCalls, repeated>>

get_nrhybsur_modes ==
    /\ pc = "get_nrhybsur_modes"
    /\ LET laldict == _check_lal_pars(params)
           miss == FirstMissing(params,
                       <<"delta_t", "mass1", "mass2", "spin1z", "spin2z", "f_lower",
                         "f_ref", "distance">>)
       IN  IF miss # <<>>
           THEN Done(Raise("KeyError", "params", miss[1])) /\ NoSolverCall
           ELSE PackedCall([solver |-> "SimIMRNRHybSur3dq8Modes", laldict |-> laldict])
    /\ UNCHANGED <<regs, fn, template, kwargs, params, xhlocals, adapterCalls,
                   prevCalls, repeated>>

----------------------------------------------------------------------------
\* The per-mode-call adapter, one step per loop iteration.

\* hplm = 0.5 * hlm
PlusStrain(hlm) == SeriesMulHalf(<<1, 0>>, hlm)

\* a cross strain whose sign is flipped for m = 0 too
CrossStrain_nonnegative(m, hlm) ==
    IF m >= 0 THEN SeriesNeg(SeriesMulHalf(<<0, 1>>, hlm))
    ELSE SeriesMulHalf(<<0, 1>>, hlm)

\* hclm = 0.5j * hlm; if m > 0: hclm *= -1
CrossStrain(m, hlm) ==
    IF m > 0 THEN SeriesNeg(SeriesMulHalf(<<0, 1>>, hlm))
    ELSE SeriesMulHalf(<<0, 1>>, hlm)

\* a request that passes the whole target list on to every solver call
ModeRequest_whole_list(l, m) == mode_array

\* params['mode_array'] = [(l, m)]
ModeRequest(l, m) == << <<l, m>> >>

\* lines 321-330: the family check, the target list, the default f_final
get_imrphenomxh_modes ==
    /\ pc = "get_imrphenomxh_modes"
    /\ IF ~Has(params, "approximant")
       THEN /\ Done(Raise("KeyError", "params", "approximant"))
            /\ UNCHANGED <<params, kwargs, xhlocals>>
       ELSE IF ~startswith(params["approximant"], "IMRPhenomX")
       THEN /\ Done(Raise("ValueError", "unsupported approximant", params["approximant"]))
            /\ UNCHANGED <<params, kwargs, xhlocals>>
       ELSE LET popped == IF Has(params, "mode_array") THEN params["mode_array"] ELSE PyNone
                params1 == DictDel(params, "mode_array")
                dm == default_modes(params["approximant"])
                params2 == IF ~Has(params1, "f_final") THEN DictSet(params1, "f_final", 0)
                           ELSE params1
            IN  IF popped.none /\ dm.kind # "return"
                THEN /\ Done(dm)
                     /\ WriteParams(params1)
                     /\ UNCHANGED xhlocals
                ELSE /\ mode_array' = IF popped.none THEN dm.value ELSE popped.val
                     /\ WriteParams(params2)
                     /\ hlms' = EmptyDict
                     /\ idx' = 0
                     /\ pc' = "xh_loop"
                     /\ UNCHANGED result
    /\ UNCHANGED <<regs, fn, template, logs, session>>

\* lines 331-351: one iteration of the loop over mode_array
get_imrphenomxh_modes_iteration ==
    /\ pc = "xh_loop"
    /\ idx < Len(mode_array)
    /\ LET l == mode_array[idx + 1][1]
           m == mode_array[idx + 1][2]
           params1 == DictSet(params, "mode_array", PySome(ModeRequest(l, m)))
           laldict == _check_lal_pars(params1)
           miss == FirstMissing(params1,
                       <<"mass1", "mass2", "spin1z", "spin2z", "distance", "f_lower",
                         "f_final", "delta_f", "coa_phase", "f_ref">>)
       IN  /\ WriteParams(params1)
           /\ IF miss # <<>>
              THEN /\ Done(Raise("KeyError", "params", miss[1]))
                   /\ NoSolverCall
                   /\ UNCHANGED <<idx, hlms>>
              ELSE \E s \in SolverChoices :
                     /\ solver' = <<s>>
                     /\ solverCalls' = Append(solverCalls,
                            [solver |-> "SimIMRPhenomXHMGenerateFDOneMode",
                             l |-> l, m |-> m, f_final |-> params1["f_final"],
                             laldict |-> laldict])
                     /\ IF OneModeFails(s, l, m)
                        THEN /\ Done(Raise("RuntimeError", "solver failed",
                                           "SimIMRPhenomXHMGenerateFDOneMode"))
                             /\ UNCHANGED <<solverRets, idx, hlms>>
                        ELSE LET hlm == OneModeOutput(s, l, m)
                             IN  /\ solverRets' = Append(solverRets, hlm)
                                 /\ hlms' = DictSet(hlms, <<l, m>>,
                                                    <<PlusStrain(hlm), CrossStrain(m, hlm)>>)
                                 /\ idx' = idx + 1
                                 /\ UNCHANGED <<pc, result>>
    /\ UNCHANGED <<regs, fn, template, mode_array, adapterCalls, prevCalls, repeated>>

\* line 352: return hlms
get_imrphenomxh_modes_return ==
    /\ pc = "xh_loop"
    /\ idx = Len(mode_array)
    /\ Done(Return(hlms))
    /\ UNCHANGED <<regs, fn, template, kwargs, params, xhlocals, logs, session>>

----------------------------------------------------------------------------

Next ==
    \/ CallEntry
    \/ CallAdapter
    \/ CallDefaultModes
    \/ CallSumModes
    \/ Repeat
    \/ Finish
    \/ DefaultModes
    \/ SumModes
    \/ get_td_waveform_modes
    \/ get_fd_waveform_modes
    \/ get_lalsimulation_modes
    \/ get_nrsur_modes
    \/ get_nrhybsur_modes
    \/ get_imrphenomxh_modes
    \/ get_imrphenomxh_modes_iteration
    \/ get_imrphenomxh_modes_return

Spec == Init /\ [][Next]_vars

----------------------------------------------------------------------------
\* Properties.

\* the parameter set an entry point validates: the template merged with the keywords
Merged == props(template, kwargs)

RequiredOf(f) == IF f = "get_td_waveform_modes" THEN td_required ELSE fd_required

RegistryOf(f) == IF f = "get_td_waveform_modes" THEN _mode_waveform_td ELSE _mode_waveform_fd

MissingError == result.kind = "ValueError" /\ result.msg = "Please provide"

\* C1: in a call of either entry point whose merged parameter set lacks a required
\* parameter, no adapter is entered and no solver is called at any point, and the
\* call ends with the missing-parameter error naming the missing keys, whatever
\* the approximant is.
C1_MissingParameterFirst ==
    (fn \in EntryPoints /\ RequiredOf(fn) \ DOMAIN Merged # {}) =>
        /\ adapterCalls = <<>>
        /\ solverCalls = <<>>
        /\ pc \in {fn, "done"}
        /\ pc = "done" => (MissingError /\ result.arg = RequiredOf(fn) \ DOMAIN Merged)

C1_Witness ==
    /\ pc = "done"
    /\ fn = "get_td_waveform_modes"
    /\ ~Has(Merged, "mass1")
    /\ Has(Merged, "approximant")
    /\ Merged["approximant"] = "NotAModel"
    /\ MissingError

\* C2: in a call of either entry point with every required parameter present and
\* an approximant that is no key of that domain's registry, no adapter is entered,
\* no solver is called, and the call ends with the unsupported-model error naming
\* the approximant.
C2_UnsupportedModel ==
    (/\ fn \in EntryPoints
     /\ RequiredOf(fn) \subseteq DOMAIN Merged
     /\ Merged["approximant"] \notin DOMAIN RegistryOf(fn)) =>
        /\ adapterCalls = <<>>
        /\ solverCalls = <<>>
        /\ pc \in {fn, "done"}
        /\ pc = "done" => /\ result.kind = "ValueError"
                          /\ result.msg = "I don't support approximant"
                          /\ result.arg = Merged["approximant"]

C2_Witness ==
    /\ pc = "done"
    /\ fn = "get_fd_waveform_modes"
    /\ fd_required \subseteq DOMAIN Merged
    /\ Merged["approximant"] = "NRSur7dq4"
    /\ Merged["approximant"] \in DOMAIN _mode_waveform_td
    /\ result.kind = "ValueError"
    /\ result.msg = "I don't support approximant"

\* the sum of Y(inclination, phi, -2, l, m) * hlm over a set of <<(l, m), hlm>> pairs
RECURSIVE ModeSum(_, _, _)
ModeSum(S, inclination, phi) ==
    IF S = {} THEN Zero
    ELSE LET e == CHOOSE e \in S : TRUE
         IN  CAdd(ModeSum(S \ {e}, inclination, phi),
                  CMul(SpinWeightedSphericalHarmonic(inclination, phi, -2, e[1][1], e[1][2]),
                       e[2]))

\* C3: for a non-empty mapping, sum_modes returns the sum over its keys of
\* Y(inclination, phi, -2, l, m) * hlms[l, m], each mode once, and every iteration
\* order of the same mapping gives that result.
C3_SumOfModes ==
    (pc = "done" /\ fn = "sum_modes" /\ kwargs["hlms"] # <<>>) =>
        /\ result.kind = "return"
        /\ result.value = PySome(ModeSum(Range(kwargs["hlms"]), kwargs["inclination"],
                                         kwargs["phi"]))
        /\ \A d \in [DOMAIN kwargs["hlms"] -> Range(kwargs["hlms"])] :
              Range(d) = Range(kwargs["hlms"]) =>
                  sum_modes(d, kwargs["inclination"], kwargs["phi"]) = result.value

C3_Witness ==
    /\ pc = "done"
    /\ fn = "sum_modes"
    /\ Len(kwargs["hlms"]) = 2
    /\ kwargs["hlms"][1][1] = <<3, 3>>
    /\ kwargs["hlms"][2][1] = <<2, -2>>
    /\ result.kind = "return"
    /\ ~result.value.none
    /\ result.value.val # Zero

\* C4: for the empty mapping, sum_modes returns a zero-valued combined signal
\* (plus = 0 and cross = 0), not an absent value.
C4_EmptyIsZero ==
    (pc = "done" /\ fn = "sum_modes" /\ kwargs["hlms"] = <<>>) =>
        /\ result.kind = "return"
        /\ ~result.value.none
        /\ result.value.val = Zero

InOrder(a, b) == a[1] < b[1] \/ (a[1] = b[1] /\ a[2] < b[2])

\* C5: default_modes returns exactly the list of the name's family, in order, and
\* raises for every name outside the four families.
C5_DefaultModesTable ==
    (pc = "done" /\ fn = "default_modes") =>
        LET n == kwargs["approximant"]
            v == result.value
        IN  IF n \in {"IMRPhenomXPHM", "IMRPhenomXHM"}
            THEN /\ result.kind = "return"
                 /\ v = << <<2, 2>>, <<2, 1>>, <<3, 3>>, <<3, 2>>, <<4, 4>>,
                           <<2, -2>>, <<2, -1>>, <<3, -3>>, <<3, -2>>, <<4, -4>> >>
            ELSE IF n \in {"IMRPhenomPv3HM", "IMRPhenomHM"}
            THEN /\ result.kind = "return"
                 /\ v = << <<2, 2>>, <<2, 1>>, <<3, 3>>, <<3, 2>>, <<4, 4>>, <<4, 3>>,
                           <<2, -2>>, <<2, -1>>, <<3, -3>>, <<3, -2>>, <<4, -4>>,
                           <<4, -3>> >>
            ELSE IF startswith(n, "NRSur7dq4")
            THEN /\ result.kind = "return"
                 /\ Range(v) = {lm \in (2..4) \X (-4..4) :
                                   lm[2] <= lm[1] /\ 0 - lm[2] <= lm[1]}
                 /\ \A j \in 1..(Len(v) - 1) : InOrder(v[j], v[j + 1])
            ELSE IF startswith(n, "NRHybSur3dq8")
            THEN /\ result.kind = "return"
                 /\ v = << <<2, 0>>, <<2, 1>>, <<2, 2>>, <<3, 0>>, <<3, 1>>, <<3, 2>>,
                           <<3, 3>>, <<4, 2>>, <<4, 3>>, <<4, 4>>, <<5, 5>> >>
            ELSE /\ result.kind = "ValueError"
                 /\ result.arg = n

C5_Witness ==
    /\ pc = "done"
    /\ fn = "default_modes"
    /\ kwargs["approximant"] = "IMRPhenomHM"
    /\ result.kind = "return"
    /\ Len(result.value) = 12


Supported == td_waveform_mode_approximants \cup fd_waveform_mode_approximants

ValidModes(v) ==
    /\ v # <<>>
    /\ \A k \in DOMAIN v : v[k][1] >= 0 /\ v[k][2] <= v[k][1] /\ 0 - v[k][2] <= v[k][1]

InFamily(n) ==
    \/ n \in {"IMRPhenomXPHM", "IMRPhenomXHM", "IMRPhenomPv3HM", "IMRPhenomHM"}
    \/ startswith(n, "NRSur7dq4")
    \/ startswith(n, "NRHybSur3dq8")

\* C6 as stated: for every name either registry lists, default_modes returns a
\* non-empty list of pairs with l >= 0 and |m| <= l.
C6_EverySupportedName ==
    (pc = "done" /\ fn = "default_modes" /\ kwargs["approximant"] \in Supported) =>
        /\ result.kind = "return"
        /\ ValidModes(result.value)

\* C6, amended: for every name either registry lists that belongs to one of the
\* four default-mode families, default_modes returns a non-empty list of pairs with
\* l >= 0 and |m| <= l; for every other listed name it raises.
C6_SupportedNamesInFamily ==
    (pc = "done" /\ fn = "default_modes" /\ kwargs["approximant"] \in Supported) =>
        IF InFamily(kwargs["approximant"])
        THEN result.kind = "return" /\ ValidModes(result.value)
        ELSE result.kind = "ValueError"

C6_Witness ==
    /\ pc = "done"
    /\ fn = "default_modes"
    /\ kwargs["approximant"] = "NRSur7dq4"
    /\ kwargs["approximant"] \in Supported
    /\ result.kind = "return"
    /\ Len(result.value) = 21

\* the running call is inside the per-mode-call adapter
InXh == adapterCalls # <<>> /\ adapterCalls[Len(adapterCalls)] = "get_imrphenomxh_modes"

\* C7: for every mode whose solver call returned h, the stored pair is
\* (h/2, i*h/2) when m <= 0 and (h/2, -(i*h)/2) when m > 0; so with the same h
\* for (2, 2) and (2, -2) the plus parts agree and the cross parts are negatives.
C7_PlusCrossConvention ==
    InXh =>
        /\ \A k \in DOMAIN solverRets :
              LET l == solverCalls[k].l
                  m == solverCalls[k].m
                  h == solverRets[k]
                  plus == hlms[<<l, m>>][1]
                  cross == hlms[<<l, m>>][2]
              IN  /\ <<l, m>> \in DOMAIN hlms
                  /\ DOMAIN plus = DOMAIN h
                  /\ DOMAIN cross = DOMAIN h
                  /\ \A j \in DOMAIN h :
                        /\ 2 * plus[j][1] = h[j][1]
                        /\ 2 * plus[j][2] = h[j][2]
                        /\ IF m > 0
                           THEN 2 * cross[j][1] = h[j][2] /\ 2 * cross[j][2] = 0 - h[j][1]
                           ELSE 2 * cross[j][1] = 0 - h[j][2] /\ 2 * cross[j][2] = h[j][1]
        /\ \A a, b \in DOMAIN solverRets :
              (/\ solverCalls[a].l = 2 /\ solverCalls[a].m = 2
               /\ solverCalls[b].l = 2 /\ solverCalls[b].m = -2
               /\ solverRets[a] = solverRets[b]) =>
                  /\ hlms[<<2, 2>>][1] = hlms[<<2, -2>>][1]
                  /\ \A j \in DOMAIN solverRets[a] :
                        /\ hlms[<<2, 2>>][2][j][1] = 0 - hlms[<<2, -2>>][2][j][1]
                        /\ hlms[<<2, 2>>][2][j][2] = 0 - hlms[<<2, -2>>][2][j][2]

C7_Witness ==
    /\ InXh
    /\ pc = "done"
    /\ result.kind = "return"
    /\ Len(solverRets) = 2
    /\ solverCalls[1].m = 2
    /\ solverCalls[2].m = -2
    /\ solverRets[1] = solverRets[2]
    /\ hlms[<<2, 2>>][2] # hlms[<<2, -2>>][2]

\* the names the registries route to adapter a
Served(a) ==
    {n \in DOMAIN _mode_waveform_td : _mode_waveform_td[n] = a} \cup
    {n \in DOMAIN _mode_waveform_fd : _mode_waveform_fd[n] = a}

\* C8: an adapter called directly with an approximant it does not serve makes no
\* solver call and ends with an error.
C8_AdaptersRejectForeignNames ==
    (/\ fn \in Adapters
     /\ Has(kwargs, "approximant")
     /\ kwargs["approximant"] \notin Served(fn)) =>
        /\ solverCalls = <<>>
        /\ pc = "done" => result.kind # "return"

\* the parameters the running adapter was handed
Passed == IF fn \in Adapters THEN kwargs ELSE Merged

\* the target list of the per-mode-call adapter for the parameters it was handed
Target ==
    IF Has(Passed, "mode_array") /\ ~Passed["mode_array"].none
    THEN Passed["mode_array"].val
    ELSE IF default_modes(Passed["approximant"]).kind = "return"
    THEN default_modes(Passed["approximant"]).value
    ELSE <<>>

\* C9: the per-mode-call adapter calls the solver once per entry of its target
\* list (the caller's mode_array if given and not None, else the default modes), in
\* list order, each call asking for that one mode only; when all calls succeed the
\* returned dictionary's keys are exactly the pairs of the target list.
C9_OneCallPerMode ==
    (InXh /\ Has(Passed, "approximant")) =>
        /\ Len(solverCalls) <= Len(Target)
        /\ \A k \in DOMAIN solverCalls :
              /\ <<solverCalls[k].l, solverCalls[k].m>> = Target[k]
              /\ solverCalls[k].laldict.mode_array = PySome(<<Target[k]>>)
        /\ (pc = "done" /\ result.kind = "return") =>
              /\ Len(solverCalls) = Len(Target)
              /\ DOMAIN result.value = Range(Target)

C9_Witness ==
    /\ InXh
    /\ pc = "done"
    /\ result.kind = "return"
    /\ fn = "get_fd_waveform_modes"
    /\ Has(Passed, "mode_array")
    /\ Len(Target) = 3
    /\ Len(solverCalls) = 3
    /\ Cardinality(DOMAIN result.value) = 2

\* C10: no step changes a registry; no step of a call changes the mapping or the
\* template the caller passed; and a call repeated with the same arguments makes
\* the same solver calls with the same arguments.
C10_NoVisibleStateChange ==
    /\ [][/\ _mode_waveform_td' = _mode_waveform_td
          /\ _mode_waveform_fd' = _mode_waveform_fd
          /\ (fn' = fn) => (kwargs' = kwargs /\ template' = template)]_vars
    /\ [](/\ _mode_waveform_td = mode_waveform_td_init
          /\ _mode_waveform_fd = mode_waveform_fd_init
          /\ (pc = "done" /\ repeated) => solverCalls = prevCalls)

C10_Witness ==
    /\ pc = "done"
    /\ repeated
    /\ fn = "get_imrphenomxh_modes"
    /\ ~Has(kwargs, "f_final")
    /\ Has(kwargs, "mode_array")
    /\ kwargs["mode_array"] = PyNone
    /\ Len(solverCalls) = 10
    /\ solverCalls = prevCalls
    /\ solverCalls[1].f_final = 0

====
